---- MODULE Spec2Model ----
(***************************************************************************)
(* Model of plot-einstein-jobs: the checkbox plot manager of               *)
(* src/plot_jobs.py (PlotTasks.manage_plots and the methods it calls) and  *)
(* the job-log table builder (TaskDataFrame.setup_df).                     *)
(*                                                                         *)
(* The plot manager is a call stack of manage_plots invocations.           *)
(* CheckButtons.set_active(index) flips the status of one box and, with    *)
(* eventson True, calls manage_plots(label) synchronously; the caller      *)
(* resumes when that invocation returns.  An exception raised inside an    *)
(* invocation is caught and printed by the widget's callback registry      *)
(* (Matplotlib >= 3.5, required by RangeSlider(handle_style=...)), so it   *)
(* ends that invocation only.                                              *)
(***************************************************************************)
EXTENDS Integers, Sequences, FiniteSets, TLC

(***************************************************************************)
(* Bounds of the model.                                                    *)
(***************************************************************************)
\* Draw calls per series since the last reset are counted up to this cap.
MaxDraws == 3
\* Nesting depth of manage_plots invocations that is explored.
MaxDepth == 4
\* Steps of the callbacks of one toggle are counted up to this cap.
MaxSteps == 100

(***************************************************************************)
(* plot_utils/project_groups.py                                            *)
(***************************************************************************)
CHKBOX_LABELS ==
    << "all", "fgrp5", "fgrpG1", "fgrp_hz", "gw_O3", "gw_O2", "gw_series",
       "brp4", "brp7", "grG1hz_X_t", "gwO3hz_X_t" >>

EXCLUSIVE_PLOTS == << "all", "fgrp_hz", "grG1hz_X_t", "gwO3hz_X_t" >>

\* Variant: 'all' left out of the labels that an inclusive plot excludes.
ALL_EXCLUDED_without_all == << "fgrp_hz", "grG1hz_X_t", "gwO3hz_X_t", "gw_series" >>

ALL_EXCLUDED == << "all", "fgrp_hz", "grG1hz_X_t", "gwO3hz_X_t", "gw_series" >>

\* Variant: 'gw_O3' left out.
GW_SERIES_EXCLUDED_without_gw_O3 ==
    << "all", "fgrp_hz", "grG1hz_X_t", "gwO3hz_X_t", "gw_O2" >>

GW_SERIES_EXCLUDED ==
    << "all", "fgrp_hz", "grG1hz_X_t", "gwO3hz_X_t", "gw_O2", "gw_O3" >>

ALL_INCLUSIVE == << "fgrp5", "fgrpG1", "gw_O3", "gw_O2", "brp4", "brp7" >>

GW_SERIES_INCLUSIVE == << "fgrp5", "fgrpG1", "brp4", "gw_series" >>

\* The keys of the PlotTasks.plot_proj dictionary (label -> plot method).
plot_proj ==
    { "all", "fgrpG1", "fgrp5", "gw_O3", "gw_O2", "gw_series", "brp4",
      "gw_O3_freq", "fgrpG1_freq" }

Range(s) == { s[k] : k \in 1..Len(s) }

Labels == Range(CHKBOX_LABELS)

\* Every name that can key isplotted or be drawn.
Series == Labels \cup plot_proj

(***************************************************************************)
(* The job log and the table built from it (TaskDataFrame.setup_df).       *)
(* A task name is a tuple of characters.  Report times are epoch seconds;  *)
(* elapsed times and frequencies are held in thousandths.                  *)
(***************************************************************************)
\* Rows of a job log that the table builder is run on.
MaxRows == 3

\* dt.floor('D'): days are 86400 seconds of the epoch time.
SecondsPerDay == 86400

\* A missing value; every real value of the model is >= 0.
NaN == 0 - 1

PROJECTS ==
    << "all", "fgrp", "fgrp5", "fgrpG1", "gw", "gw_O2", "gw_O3", "brp4", "brp7" >>

PROJ_TO_REPORT ==
    << "all", "fgrp5", "fgrpG1", "gw_O3", "gw_O2", "brp4", "brp7" >>

IS_PROJECT ==
    [ all |-> "all", fgrpG1 |-> "fgrpG1", fgrp_hz |-> "fgrpG1", fgrp5 |-> "fgrp5",
      gw_O3 |-> "gw_O3", gw_O2 |-> "gw_O2", gw_series |-> "gw", brp4 |-> "brp4",
      brp7 |-> "brp7", grG1hz_X_t |-> "fgrpG1", gwO3hz_X_t |-> "gw_O3" ]

GW_SERIES ==
    <<
       [ name |-> "O2AS20-500", text |-> << "O", "2", "A", "S", "2", "0", "-", "5", "0", "0" >> ],
       [ name |-> "O2MD1C1", text |-> << "O", "2", "M", "D", "1", "C", "1" >> ],
       [ name |-> "O2MD1C2", text |-> << "O", "2", "M", "D", "1", "C", "2" >> ],
       [ name |-> "O2MD1G2", text |-> << "O", "2", "M", "D", "1", "G", "2" >> ],
       [ name |-> "O2MD1G_", text |-> << "O", "2", "M", "D", "1", "G", "_" >> ],
       [ name |-> "O2MD1Gn", text |-> << "O", "2", "M", "D", "1", "G", "n" >> ],
       [ name |-> "O2MD1S3", text |-> << "O", "2", "M", "D", "1", "S", "3" >> ],
       [ name |-> "O2MDFG2_", text |-> << "O", "2", "M", "D", "F", "G", "2", "_" >> ],
       [ name |-> "O2MDFG2e", text |-> << "O", "2", "M", "D", "F", "G", "2", "e" >> ],
       [ name |-> "O2MDFG2f", text |-> << "O", "2", "M", "D", "F", "G", "2", "f" >> ],
       [ name |-> "O2MDFG3_", text |-> << "O", "2", "M", "D", "F", "G", "3", "_" >> ],
       [ name |-> "O2MDFG3a", text |-> << "O", "2", "M", "D", "F", "G", "3", "a" >> ],
       [ name |-> "O2MDFS2", text |-> << "O", "2", "M", "D", "F", "S", "2" >> ],
       [ name |-> "O2MDFS3_", text |-> << "O", "2", "M", "D", "F", "S", "3", "_" >> ],
       [ name |-> "O2MDFS3a", text |-> << "O", "2", "M", "D", "F", "S", "3", "a" >> ],
       [ name |-> "O2MDFV2_", text |-> << "O", "2", "M", "D", "F", "V", "2", "_" >> ],
       [ name |-> "O2MDFV2e", text |-> << "O", "2", "M", "D", "F", "V", "2", "e" >> ],
       [ name |-> "O2MDFV2g", text |-> << "O", "2", "M", "D", "F", "V", "2", "g" >> ],
       [ name |-> "O2MDFV2h", text |-> << "O", "2", "M", "D", "F", "V", "2", "h" >> ],
       [ name |-> "O2MDFV2i", text |-> << "O", "2", "M", "D", "F", "V", "2", "i" >> ],
       [ name |-> "O3AS1_", text |-> << "O", "3", "A", "S", "1", "_" >> ],
       [ name |-> "O3AS1a", text |-> << "O", "3", "A", "S", "1", "a" >> ],
       [ name |-> "O3ASE1", text |-> << "O", "3", "A", "S", "E", "1" >> ] >>

\* "LATeah1000F_100.0_0_0.0_1_1"
Name_fgrp5 ==
    << "L", "A", "T", "e", "a", "h", "1", "0", "0", "0", "F", "_", "1", "0",
       "0", ".", "0", "_", "0", "_", "0", ".", "0", "_", "1", "_", "1" >>

\* "LATeah1000F_200.0_0_0.0_2_1"
Name_fgrp5_200 ==
    << "L", "A", "T", "e", "a", "h", "1", "0", "0", "0", "F", "_", "2", "0",
       "0", ".", "0", "_", "0", "_", "0", ".", "0", "_", "2", "_", "1" >>

\* "LATeah4013L03_988.0_0_0.0_9010205_1"
Name_fgrpG1 ==
    << "L", "A", "T", "e", "a", "h", "4", "0", "1", "3", "L", "0", "3", "_",
       "9", "8", "8", ".", "0", "_", "0", "_", "0", ".", "0", "_", "9", "0",
       "1", "0", "2", "0", "5", "_", "1" >>

\* "h1_300.50_O3aC01__O3AS1a_300.50Hz_1_1"
Name_gw_O3 ==
    << "h", "1", "_", "3", "0", "0", ".", "5", "0", "_", "O", "3", "a", "C",
       "0", "1", "_", "_", "O", "3", "A", "S", "1", "a", "_", "3", "0", "0",
       ".", "5", "0", "H", "z", "_", "1", "_", "1" >>

\* The inputs the table builder is run on.
SampleNames == { Name_fgrp5, Name_fgrp5_200, Name_fgrpG1, Name_gw_O3 }

SampleTimes == { NaN, 1000000000, 1000086400 }

SampleElapsed == { NaN, 10500 }

LogRow == [ time_stamp : SampleTimes, task_name : SampleNames, task_t : SampleElapsed ]

Logs == UNION { [ 1..n -> LogRow ] : n \in 1..MaxRows }

\* The job logs that the plot manager is run over.
SampleLogs ==
    { << [ time_stamp |-> 1000000000, task_name |-> Name_fgrp5, task_t |-> 10500 ] >>,
      << [ time_stamp |-> 1000000000, task_name |-> Name_fgrp5, task_t |-> 10500 ],
         [ time_stamp |-> NaN, task_name |-> Name_fgrpG1, task_t |-> 20000 ],
         [ time_stamp |-> 1000086400, task_name |-> Name_gw_O3, task_t |-> 30000 ] >> }

(***************************************************************************)
(* str.startswith, str.contains and the regular expressions.               *)
(***************************************************************************)
Digits == { "0", "1", "2", "3", "4", "5", "6", "7", "8", "9" }

\* s has the text p at position k.
At(s, k, p) == k >= 1 /\ k + Len(p) - 1 <= Len(s) /\ SubSeq(s, k, k + Len(p) - 1) = p

startswith(s, p) == At(s, 1, p)

contains(s, p) == \E k \in 1..Len(s) : At(s, k, p)

DigitsAt(s, k, n) == k + n - 1 <= Len(s) /\ \A d \in k..(k + n - 1) : s[d] \in Digits

LATeah == << "L", "A", "T", "e", "a", "h" >>

\* r'LATeah\d{4}F'
match_fgrp5(s) ==
    \E k \in 1..Len(s) : At(s, k, LATeah) /\ DigitsAt(s, k + 6, 4) /\ At(s, k + 10, << "F" >>)

\* r'LATeah\d{4}L|LATeah1049'
match_fgrpG1(s) ==
    \/ \E k \in 1..Len(s) :
         At(s, k, LATeah) /\ DigitsAt(s, k + 6, 4) /\ At(s, k + 10, << "L" >>)
    \/ contains(s, LATeah \o << "1", "0", "4", "9" >>)

\* Length of the run of digits of s that starts at position k.
DigitRun(s, k) ==
    LET ns == { n \in 0..Len(s) : DigitsAt(s, k, n) }
    IN  CHOOSE n \in ns : \A m \in ns : m <= n

DigitValue(c) ==
    CASE c = "0" -> 0 [] c = "1" -> 1 [] c = "2" -> 2 [] c = "3" -> 3 [] c = "4" -> 4
      [] c = "5" -> 5 [] c = "6" -> 6 [] c = "7" -> 7 [] c = "8" -> 8 [] c = "9" -> 9

\* int() of a run of digits.
RECURSIVE ToInt(_)
ToInt(ds) ==
    IF ds = << >> THEN 0
    ELSE 10 * ToInt(SubSeq(ds, 1, Len(ds) - 1)) + DigitValue(ds[Len(ds)])

\* Variant: the digits after the point are dropped.
ToFloat_whole(whole, frac) == 1000 * ToInt(whole)

\* float('<whole>.<frac>') in thousandths; digits after the third are dropped.
ToFloat(whole, frac) ==
    LET f3 == SubSeq(frac \o << "0", "0", "0" >>, 1, 3)
    IN  1000 * ToInt(whole) + ToInt(f3)

\* str.extract(r'h1_(\d+\.\d+)_?').astype(float): the first match, else NaN.
extract_gw_freq(s) ==
    LET Hit(k) ==
            /\ At(s, k, << "h", "1", "_" >>)
            /\ DigitRun(s, k + 3) >= 1
            /\ At(s, k + 3 + DigitRun(s, k + 3), << "." >>)
            /\ DigitRun(s, k + 4 + DigitRun(s, k + 3)) >= 1
        hits == { k \in 1..Len(s) : Hit(k) }
    IN  IF hits = {} THEN NaN
        ELSE LET k == CHOOSE h \in hits : \A g \in hits : h <= g
                 w == DigitRun(s, k + 3)
                 d == DigitRun(s, k + 4 + w)
             IN  ToFloat(SubSeq(s, k + 3, k + 2 + w),
                         SubSeq(s, k + 4 + w, k + 3 + w + d))

\* str.extract(r'LATeah.*?_(\d+)').astype(float): the first match, else NaN.
extract_fgrpG1_freq(s) ==
    LET Under(k) == { m \in (k + 6)..Len(s) : s[m] = "_" /\ DigitRun(s, m + 1) >= 1 }
        hits == { k \in 1..Len(s) : At(s, k, LATeah) /\ Under(k) # {} }
    IN  IF hits = {} THEN NaN
        ELSE LET k == CHOOSE h \in hits : \A g \in hits : h <= g
                 m == CHOOSE u \in Under(k) : \A v \in Under(k) : u <= v
             IN  ToFloat(SubSeq(s, m + 1, m + DigitRun(s, m + 1)), << >>)

(***************************************************************************)
(* Columns of the DataFrame.  A table is a sequence of rows, a row maps    *)
(* column names to values.                                                 *)
(***************************************************************************)
Rows(df) == 1..Len(df)

HasColumn(df, col) == \A i \in Rows(df) : col \in DOMAIN df[i]

\* df[col] = vals, for the first n rows.
RECURSIVE set_column(_, _, _, _)
set_column(df, col, vals, n) ==
    IF n = 0 THEN << >>
    ELSE Append(set_column(df, col, vals, n - 1), (col :> vals[n]) @@ df[n])

\* df[col] = vals
with_column(df, col, vals) == set_column(df, col, vals, Len(df))

\* pd.read_table(datapath, sep=' ', usecols=(0, 8, 10), names=_headers)
read_table(log) ==
    [ i \in 1..Len(log) |->
        [ c \in { "time_stamp", "task_name", "task_t" } |-> log[i][c] ] ]

\* Variant: a gap takes the last valid value before it.
interpolate_ffill(col) ==
    [ i \in 1..Len(col) |->
        IF col[i] # NaN THEN col[i]
        ELSE LET before == { j \in 1..(i - 1) : col[j] # NaN }
             IN  IF before = {} THEN NaN
                 ELSE col[CHOOSE j \in before : \A k \in before : k <= j] ]

\* Series.interpolate(): linear in the row position between the nearest valid
\* neighbours; after the last valid value it is repeated; before the first
\* valid value the gaps stay.
interpolate(col) ==
    [ i \in 1..Len(col) |->
        IF col[i] # NaN THEN col[i]
        ELSE LET before == { j \in 1..(i - 1) : col[j] # NaN }
                 after == { j \in (i + 1)..Len(col) : col[j] # NaN }
             IN  IF before = {} THEN NaN
                 ELSE LET p == CHOOSE j \in before : \A k \in before : k <= j
                      IN  IF after = {} THEN col[p]
                          ELSE LET n == CHOOSE j \in after : \A k \in after : j <= k
                               IN  col[p] + ((col[n] - col[p]) * (i - p)) \div (n - p) ]

\* Lines 183: self.tasks_df.time_stamp.interpolate(inplace=True)
interpolate_time_stamp(df) ==
    with_column(df, "time_stamp", interpolate([ i \in Rows(df) |-> df[i].time_stamp ]))

\* task_t.astype(int) raises on a missing value.
astype_int_raises(df) == \E i \in Rows(df) : df[i].task_t = NaN

\* Line 187: task_sec, the elapsed time truncated to whole seconds.
add_task_sec(df) ==
    with_column(df, "task_sec", [ i \in Rows(df) |-> df[i].task_t \div 1000 ])

\* Lines 190-198: pd.to_datetime keeps the instant (NaN becomes NaT); the zero columns.
add_datetimes(df) ==
    with_column(with_column(df, "null_time", [ i \in Rows(df) |-> 0 ]),
                "null_Dcnt", [ i \in Rows(df) |-> 0 ])

\* Variant: 'all' flagged by the FGRP name prefix.
project_flag_prefix(proj, name) ==
    CASE proj = "all" -> startswith(name, LATeah)
      [] OTHER -> FALSE

\* Lines 201-216: the value of the is_<project> column for one task name.
project_flag(proj, name) ==
    CASE proj = "all" -> name # << >>
      [] proj = "gw" -> startswith(name, << "h", "1", "_" >>)
      [] proj = "gw_O2" -> contains(name, << "_", "O", "2" >>)
      [] proj = "gw_O3" -> contains(name, << "_", "O", "3" >>)
      [] proj = "fgrp" -> startswith(name, LATeah)
      [] proj = "fgrp5" -> match_fgrp5(name)
      [] proj = "fgrpG1" -> match_fgrpG1(name)
      [] proj = "brp4" -> startswith(name, << "p" >>)

\* The projects that setup_df makes an is_<project> column for.
FLAGGED == << "all", "gw", "gw_O2", "gw_O3", "fgrp", "fgrp5", "fgrpG1", "brp4" >>

RECURSIVE add_project_flags(_, _)
add_project_flags(df, projs) ==
    IF projs = << >> THEN df
    ELSE add_project_flags(
             with_column(df, "is_" \o Head(projs),
                         [ i \in Rows(df) |-> project_flag(Head(projs), df[i].task_name) ]),
             Tail(projs))

\* Lines 218-221: is_<series> for the GW series.
RECURSIVE add_series_flags(_, _)
add_series_flags(df, sers) ==
    IF sers = << >> THEN df
    ELSE add_series_flags(
             with_column(df, "is_" \o Head(sers).name,
                         [ i \in Rows(df) |-> contains(df[i].task_name, Head(sers).text) ]),
             Tail(sers))

add_flags(df) == add_series_flags(add_project_flags(df, FLAGGED), GW_SERIES)

\* Variant: fgrpG1_freq without the .where(is_fgrpG1).
add_freqs_unrestricted(df) ==
    with_column(
        with_column(df, "gw_freq",
                    [ i \in Rows(df) |-> extract_gw_freq(df[i].task_name) ]),
        "fgrpG1_freq",
        [ i \in Rows(df) |-> extract_fgrpG1_freq(df[i].task_name) ])

\* Lines 231-237: gw_freq, and fgrpG1_freq kept only where is_fgrpG1.
add_freqs(df) ==
    with_column(
        with_column(df, "gw_freq",
                    [ i \in Rows(df) |-> extract_gw_freq(df[i].task_name) ]),
        "fgrpG1_freq",
        [ i \in Rows(df) |-> IF df[i].is_fgrpG1
                             THEN extract_fgrpG1_freq(df[i].task_name) ELSE NaN ])

\* time_stamp.dt.floor('D')
floor_day(t) == IF t = NaN THEN NaN ELSE (t \div SecondsPerDay) * SecondsPerDay

\* Lines 252-257: the group key is the floored time where is_<proj>, else
\* missing; transform('count') gives every row the size of its group and
\* rows without a key a missing count.
daily_count(df, proj) ==
    LET key == [ i \in Rows(df) |->
                   IF df[i]["is_" \o proj] THEN floor_day(df[i].time_stamp) ELSE NaN ]
    IN  [ i \in Rows(df) |->
            IF key[i] = NaN THEN NaN
            ELSE Cardinality({ j \in Rows(df) : key[j] = key[i] }) ]

\* count_log_projects, line 274: tasks_df[is_p].sum()
proj_total(df, p) == Cardinality({ i \in Rows(df) : df[i]["is_" \o p] })

\* count_log_projects, lines 273-276: tasks_df[is_p] or tasks_df[p_dcnt]
\* raises KeyError when the table has no such column.
count_raises(df, p) ==
    ~ HasColumn(df, "is_" \o p) \/ ~ HasColumn(df, p \o "_Dcnt")

\* count_log_projects, lines 278-281: the number of groups of p_dcnt by the
\* date of the rows whose p_dcnt is not null.
proj_days(df, p) ==
    Cardinality({ floor_day(df[i].time_stamp) :
                    i \in { j \in Rows(df) :
                              df[j][p \o "_Dcnt"] # NaN /\ df[j].time_stamp # NaN } })

\* The float inf; every finite value of the model is >= 0.
Inf == 0 - 2

\* round(total / days, 1) in tenths, a tie going to the even tenth.
round1(total, days) ==
    LET n == 10 * total
        q == n \div days
        r == n % days
    IN  IF 2 * r < days THEN q
        ELSE IF 2 * r > days THEN q + 1
        ELSE IF q % 2 = 0 THEN q ELSE q + 1

\* count_log_projects, lines 283-287: the daily mean in tenths; a total that
\* is not 0 over 0 days is the float inf.
proj_daily_mean(df, p) ==
    IF proj_total(df, p) # 0
    THEN IF proj_days(df, p) = 0 THEN Inf ELSE round1(proj_total(df, p), proj_days(df, p))
    ELSE 0

\* count_log_projects, line 292: len(self.tasks_df.index)
total_jobs(df) == Len(df)

(***************************************************************************)
(* plot_utils/path_check.py: the data files and the configuration file.    *)
(* A line of text is a tuple of characters; "NL" stands for the newline    *)
(* that ends a line.                                                       *)
(***************************************************************************)
\* Longest configuration file of the model, in lines.
MaxCfgLines == 2

\* The number of characters validate_datafile reads: file.readline(11).
ReadLen == 11

\* The number of digits of a report time: \d{10}.
StampDigits == 10

\* What \s of the regular expression matches.
Whitespace == { " ", "NL" }

\* First lines of a data file: a job log record, a bare report time, a
\* report time of eleven digits, one of nine digits, text, an empty file.
FirstLines ==
    { << "1","5","5","5","7","6","3","2","4","4"," ","u","e" >>,
      << "1","5","5","5","7","6","3","2","4","4","NL" >>,
      << "1","5","5","5","7","6","3","2","4","4","9"," ","u","e" >>,
      << "1","5","5","5","7","6","3","2","4"," ","u","e" >>,
      << "j","o","b"," ","l","o","g","NL" >>,
      << >> }

\* A file on disk: whether Path.is_file holds of it, and its first line.
NoFile == [ isfile |-> FALSE, first |-> << >> ]

FileStates == { NoFile } \cup { [ isfile |-> TRUE, first |-> l ] : l \in FirstLines }

\* The three files set_datapath can select: TESTFILE, the file a custom_path
\* line names, default_datapath[MY_OS].
Sources == { "TESTFILE", "custom", "default" }

\* The path every custom_path line of the model names.
CustomFile == << "/", "x" >>

\* Lines of plot_cfg.txt: a commented-out setting, a setting, a setting
\* without a path, a blank line.
CfgLines ==
    { << "#","c","u","s","t","o","m","_","p","a","t","h"," ","/","x" >>,
      << "c","u","s","t","o","m","_","p","a","t","h"," ","/","x" >>,
      << "c","u","s","t","o","m","_","p","a","t","h" >>,
      << >> }

CfgTexts == UNION { [ 1..n -> CfgLines ] : n \in 0..MaxCfgLines }

CfgStates == { [ isfile |-> FALSE, lines |-> << >> ] }
               \cup { [ isfile |-> TRUE, lines |-> t ] : t \in CfgTexts }

\* file.readline(size): at most size characters of the first line.
readline(file, size) ==
    IF Len(file.first) <= size THEN file.first ELSE SubSeq(file.first, 1, size)

\* match(r'\d{10}\s', text)
match_stamp(text) ==
    /\ Len(text) > StampDigits
    /\ DigitsAt(text, 1, StampDigits)
    /\ text[StampDigits + 1] \in Whitespace

\* validate_datafile ends in sys.exit.
validate_exits(file) == ~ match_stamp(readline(file, ReadLen))

\* '#' not in line and 'custom_path' in line
is_custom_line(line) ==
    /\ ~ contains(line, << "#" >>)
    /\ contains(line, << "c","u","s","t","o","m","_","p","a","t","h" >>)

\* parts = line.split(); del parts[0]; " ".join(parts): what follows the
\* first blank of a line that starts with its first word.
RECURSIVE first_blank(_, _)
first_blank(line, k) ==
    IF k > Len(line) THEN 0
    ELSE IF line[k] = " " THEN k
    ELSE first_blank(line, k + 1)

custom_path_of(line) ==
    IF first_blank(line, 1) = 0 THEN << >>
    ELSE SubSeq(line, first_blank(line, 1) + 1, Len(line))

\* Path.is_file(Path(custom_path))
custom_is_file(fs, path) == path = CustomFile /\ fs["custom"].isfile

(***************************************************************************)
(* State of the plot manager.                                              *)
(***************************************************************************)
VARIABLES
    status,      \* checkbox.get_status(): label -> checked
    isplotted,   \* self.isplotted: label -> marked drawn
    do_replot,   \* self.do_replot
    drawn,       \* series -> number of plot_<series> calls since the last reset_plots
    stack,       \* active manage_plots invocations, innermost last
    phase,       \* "init" before setup_plot_manager, then "ready"
    event,       \* the user toggle being handled or last handled
    raised,      \* an invocation of the current toggle ended with an exception
    ax1_legend,  \* self.ax1.get_legend(): "none", or the legend "visible" or "hidden"
    ax2_legend,  \* self.ax2.get_legend()
    legend_btn_on, \* self.legend_btn_on
    joblog,      \* the rows of the job log file
    tasks_df,    \* self.tasks_df
    setup_pc,    \* position in setup_df
    daily_counts, \* the daily_counts dictionary of setup_df
    use_test_file, \* the argument of set_datapath
    files,       \* the data files on disk: TESTFILE, the custom file, the default job log
    cfg,         \* CFGFILE: whether it exists and its lines
    path_pc,     \* position in set_datapath, or how it ended
    cfg_i,       \* index of the configuration line being looked at
    datapath     \* the file whose path set_datapath returns

plotvars == << status, isplotted, do_replot, drawn, stack, phase, event, raised,
              ax1_legend, ax2_legend, legend_btn_on >>

dfvars == << joblog, tasks_df, setup_pc, daily_counts >>

pathvars == << use_test_file, files, cfg, path_pc, cfg_i, datapath >>

vars == << plotvars, dfvars, pathvars >>

\* set_datapath has returned the default job log.
PathReturned ==
    /\ use_test_file = FALSE
    /\ files = [ f \in Sources |->
                   [ isfile |-> TRUE,
                     first |-> << "1","5","5","5","7","6","3","2","4","4"," ","u","e" >> ] ]
    /\ cfg = [ isfile |-> FALSE, lines |-> << >> ]
    /\ path_pc = "returned"
    /\ cfg_i = 0
    /\ datapath = "default"

\* called: a plot_<series> method has been called while handling the event;
\* reset: reset_plots has been called while handling the event;
\* redelivered: the callback was entered without a change of the box;
\* steps: the steps that the callbacks of the event have taken.
NoEvent ==
    [ label |-> "none", select |-> FALSE, called |-> FALSE, reset |-> FALSE,
      redelivered |-> FALSE, steps |-> 0,
      status |-> [ l \in Labels |-> FALSE ],
      isplotted |-> [ l \in Labels |-> FALSE ] ]

\* PlotTasks.__init__: no checkbox yet, empty isplotted, do_replot False.
InitPlot ==
    /\ status = [ l \in Labels |-> FALSE ]
    /\ isplotted = [ l \in Labels |-> FALSE ]
    /\ do_replot = FALSE
    /\ drawn = [ s \in Series |-> 0 ]
    /\ stack = << >>
    /\ phase = "init"
    /\ event = NoEvent
    /\ raised = FALSE
    /\ ax1_legend = "none"
    /\ ax2_legend = "none"
    /\ legend_btn_on = TRUE

\* The table that the plot manager is constructed over: the rows of a sample
\* job log with their is_<project> columns.
Init ==
    /\ InitPlot
    /\ joblog \in SampleLogs
    /\ tasks_df = add_project_flags(read_table(joblog), FLAGGED)
    /\ setup_pc = "plotting"
    /\ daily_counts = << >>
    /\ PathReturned

\* One more step of a callback of the event.
Tick(e) == [ e EXCEPT !.steps = IF @ < MaxSteps THEN @ + 1 ELSE MaxSteps ]

(***************************************************************************)
(* Helpers: the innermost invocation.                                      *)
(***************************************************************************)
Top == stack[Len(stack)]

SetTop(f) == [ stack EXCEPT ![Len(stack)] = f ]

Pop == SubSeq(stack, 1, Len(stack) - 1)

\* manage_plots entry: ischecked = dict(zip(CHKBOX_LABELS, checkbox.get_status())).
\* bodies counts the if/elif branch bodies that the invocation has entered.
NewFrame(label, st) ==
    [ label |-> label, ischecked |-> st, pc |-> "chain1", i |-> 1, bodies |-> 0 ]

\* Variant: the box ends up checked whatever it was.
set_active_check(st, label) == [ st EXCEPT ![label] = TRUE ]

\* CheckButtons.set_active(index): flip the box; the callback then runs.
set_active(st, label) == [ st EXCEPT ![label] = ~ st[label] ]

(***************************************************************************)
(* reset_plots and the plot_<series> methods.                              *)
(***************************************************************************)
\* reset_plots: clears both axes, then marks every isplotted key False.
reset_isplotted(isp) == [ k \in DOMAIN isp |-> FALSE ]

reset_drawn == [ s \in Series |-> 0 ]

\* What reset_plots can read and write: the selection state and the axes.
Selection ==
    [ status |-> status, isplotted |-> isplotted, do_replot |-> do_replot,
      drawn |-> drawn, ax1_legend |-> ax1_legend, ax2_legend |-> ax2_legend ]

\* Variant: reset_plots also clears the do_replot flag.
reset_plots_clears_flag(sel) ==
    [ sel EXCEPT !.isplotted = reset_isplotted(@), !.drawn = reset_drawn,
                 !.ax1_legend = "none", !.ax2_legend = "none",
                 !.do_replot = FALSE ]

\* reset_plots: ax1.clear() and ax2.clear() remove the series and the
\* legends, then every isplotted key is marked False.
reset_plots(sel) ==
    [ sel EXCEPT !.isplotted = reset_isplotted(@), !.drawn = reset_drawn,
                 !.ax1_legend = "none", !.ax2_legend = "none" ]

\* format_legends: ax.legend(...) puts a new legend, visible, on the axes.
format_legends(legend) == "visible"

\* The legend of an axes after the draws of a branch.
legend_after(draw, legend) ==
    IF draw.called THEN format_legends(IF draw.reset THEN "none" ELSE legend)
    ELSE IF draw.reset THEN "none"
    ELSE legend

Bump(n) == IF n < MaxDraws THEN n + 1 ELSE MaxDraws

\* plot_<key>: draws the series and sets isplotted[<key>] = True.
plot_one(draw, key) ==
    [ isplotted |-> [ k \in (DOMAIN draw.isplotted) \cup {key} |->
                        IF k = key THEN TRUE ELSE draw.isplotted[k] ],
      drawn |-> [ draw.drawn EXCEPT ![key] = Bump(@) ],
      raised |-> FALSE,
      called |-> TRUE,
      reset |-> draw.reset ]

\* for ...: self.plot_proj[_proj]()  over the keys in order; a key that is
\* not in the plot_proj dictionary raises KeyError and ends the invocation.
RECURSIVE plot_calls(_, _)
plot_calls(draw, keys) ==
    IF keys = << >> THEN draw
    ELSE IF Head(keys) \notin plot_proj
         THEN [ draw EXCEPT !.raised = TRUE ]
         ELSE plot_calls(plot_one(draw, Head(keys)), Tail(keys))

\* The canvas before the draws of a branch; rst: reset_plots has just run.
Draw0(isp, cnt, rst) ==
    [ isplotted |-> isp, drawn |-> cnt, raised |-> FALSE, called |-> FALSE, reset |-> rst ]

InSeq(x, seq) == x \in Range(seq)

(***************************************************************************)
(* setup_plot_manager: isplotted all False, a CheckButtons with every box  *)
(* unchecked, manage_plots connected, then set_active('all').              *)
(***************************************************************************)
\* Variant: the closing set_active of the 'all' box left out.
setup_plot_manager_blank ==
    /\ phase = "init"
    /\ isplotted' = [ l \in Labels |-> FALSE ]
    /\ status' = [ l \in Labels |-> FALSE ]
    /\ stack' = << >>
    /\ phase' = "ready"
    /\ UNCHANGED << do_replot, drawn, event, raised >>
    /\ UNCHANGED << ax1_legend, ax2_legend, legend_btn_on >>
    /\ UNCHANGED << dfvars, pathvars >>

setup_plot_manager ==
    /\ phase = "init"
    /\ isplotted' = [ l \in Labels |-> FALSE ]
    /\ status' = set_active([ l \in Labels |-> FALSE ], "all")
    /\ stack' = << NewFrame("all", status') >>
    /\ phase' = "ready"
    /\ UNCHANGED << do_replot, drawn, event, raised >>
    /\ UNCHANGED << ax1_legend, ax2_legend, legend_btn_on >>
    /\ UNCHANGED << dfvars, pathvars >>

(***************************************************************************)
(* The user clicks the box of label l: the widget flips it and calls       *)
(* manage_plots(l).  Only possible when no callback is running.            *)
(***************************************************************************)
UserToggle(l) ==
    /\ phase = "ready"
    /\ stack = << >>
    /\ status' = set_active(status, l)
    /\ stack' = << NewFrame(l, status') >>
    /\ event' = [ label |-> l, select |-> status'[l],
                  called |-> FALSE, reset |-> FALSE, redelivered |-> FALSE, steps |-> 0,
                  status |-> status, isplotted |-> isplotted ]
    /\ raised' = FALSE
    /\ UNCHANGED << isplotted, do_replot, drawn, phase >>
    /\ UNCHANGED << ax1_legend, ax2_legend, legend_btn_on >>
    /\ UNCHANGED << dfvars, pathvars >>

\* manage_plots(l) is entered for an ALL_INCLUSIVE label whose box is checked
\* and whose series is drawn, the boxes being left as they are.
Reselect(l) ==
    /\ phase = "ready"
    /\ stack = << >>
    /\ InSeq(l, ALL_INCLUSIVE)
    /\ status[l]
    /\ isplotted[l]
    /\ stack' = << NewFrame(l, status) >>
    /\ event' = [ label |-> l, select |-> TRUE,
                  called |-> FALSE, reset |-> FALSE, redelivered |-> TRUE, steps |-> 0,
                  status |-> status, isplotted |-> isplotted ]
    /\ raised' = FALSE
    /\ UNCHANGED << status, isplotted, do_replot, drawn, phase >>
    /\ UNCHANGED << ax1_legend, ax2_legend, legend_btn_on >>
    /\ UNCHANGED << dfvars, pathvars >>

(***************************************************************************)
(* manage_plots, first if/elif: 'all' toggled on, or anything toggled off. *)
(***************************************************************************)
Chain1 ==
    /\ stack # << >>
    /\ Top.pc = "chain1"
    /\ LET f == Top IN
       IF f.label = "all" /\ f.ischecked[f.label]
       THEN /\ stack' = SetTop([ f EXCEPT !.pc = "loop1", !.i = 1, !.bodies = @ + 1 ])
            /\ event' = Tick(event)
            /\ UNCHANGED << status, isplotted, do_replot, drawn, ax1_legend, ax2_legend >>
       ELSE IF ~ f.ischecked[f.label]
       THEN /\ status' = reset_plots(Selection).status
            /\ isplotted' = reset_plots(Selection).isplotted
            /\ do_replot' = reset_plots(Selection).do_replot
            /\ drawn' = reset_plots(Selection).drawn
            /\ ax1_legend' = reset_plots(Selection).ax1_legend
            /\ ax2_legend' = reset_plots(Selection).ax2_legend
            /\ event' = [ Tick(event) EXCEPT !.reset = TRUE ]
            /\ stack' = SetTop([ f EXCEPT !.pc = "chain2", !.bodies = @ + 1 ])
       ELSE /\ stack' = SetTop([ f EXCEPT !.pc = "chain2" ])
            /\ event' = Tick(event)
            /\ UNCHANGED << status, isplotted, do_replot, drawn, ax1_legend, ax2_legend >>
    /\ UNCHANGED << phase, raised, legend_btn_on >>
    /\ UNCHANGED << dfvars, pathvars >>

\* Ends the innermost invocation after its draws; a KeyError ends it at once.
Finish(f, draw, nextpc) ==
    /\ isplotted' = draw.isplotted
    /\ drawn' = draw.drawn
    /\ ax1_legend' = legend_after(draw, ax1_legend)
    /\ ax2_legend' = legend_after(draw, ax2_legend)
    /\ event' = [ Tick(event) EXCEPT !.called = @ \/ draw.called, !.reset = @ \/ draw.reset ]
    /\ IF draw.raised
       THEN /\ stack' = Pop
            /\ raised' = TRUE
       ELSE /\ stack' = SetTop([ f EXCEPT !.pc = nextpc ])
            /\ UNCHANGED raised

(***************************************************************************)
(* Second if/elif: an ALL_INCLUSIVE label toggled on, or toggled off.      *)
(***************************************************************************)
Chain2Replot(ischecked, p) ==
    ischecked[p] /\ (InSeq(p, ALL_INCLUSIVE) \/ p = "gw_series")

Chain2 ==
    /\ stack # << >>
    /\ Top.pc = "chain2"
    /\ LET f == Top
           Test(p) == Chain2Replot(f.ischecked, p)
       IN
       IF InSeq(f.label, ALL_INCLUSIVE) /\ f.ischecked[f.label]
       THEN /\ stack' = SetTop([ f EXCEPT !.pc = "loop2", !.i = 1, !.bodies = @ + 1 ])
            /\ event' = Tick(event)
            /\ UNCHANGED << isplotted, drawn, raised, ax1_legend, ax2_legend >>
       ELSE IF ~ f.ischecked[f.label]
       THEN Finish([ f EXCEPT !.bodies = @ + 1 ],
                   plot_calls(Draw0(reset_plots(Selection).isplotted, reset_plots(Selection).drawn, TRUE),
                              SelectSeq(CHKBOX_LABELS, Test)),
                   "chain3")
       ELSE /\ stack' = SetTop([ f EXCEPT !.pc = "chain3" ])
            /\ event' = Tick(event)
            /\ UNCHANGED << isplotted, drawn, raised, ax1_legend, ax2_legend >>
    /\ UNCHANGED << status, do_replot, phase, legend_btn_on >>
    /\ UNCHANGED << dfvars, pathvars >>

(***************************************************************************)
(* Third if/elif: gw_series toggled on, or anything toggled off.           *)
(***************************************************************************)
\* Variant: the 'status and' test left out.
Chain3Replot_any(ischecked, p) ==
    InSeq(p, GW_SERIES_INCLUSIVE)

Chain3Replot(ischecked, p) ==
    ischecked[p] /\ InSeq(p, GW_SERIES_INCLUSIVE)

Chain3 ==
    /\ stack # << >>
    /\ Top.pc = "chain3"
    /\ LET f == Top
           Test(p) == Chain3Replot(f.ischecked, p)
       IN
       IF f.label = "gw_series" /\ f.ischecked[f.label]
       THEN /\ stack' = SetTop([ f EXCEPT !.pc = "loop3", !.i = 1, !.bodies = @ + 1 ])
            /\ event' = Tick(event)
            /\ UNCHANGED << isplotted, drawn, raised, ax1_legend, ax2_legend >>
       ELSE IF ~ f.ischecked[f.label]
       THEN Finish([ f EXCEPT !.bodies = @ + 1 ],
                   plot_calls(Draw0(reset_plots(Selection).isplotted, reset_plots(Selection).drawn, TRUE),
                              SelectSeq(CHKBOX_LABELS, Test)),
                   "chain4")
       ELSE /\ stack' = SetTop([ f EXCEPT !.pc = "chain4" ])
            /\ event' = Tick(event)
            /\ UNCHANGED << isplotted, drawn, raised, ax1_legend, ax2_legend >>
    /\ UNCHANGED << status, do_replot, phase, legend_btn_on >>
    /\ UNCHANGED << dfvars, pathvars >>

(***************************************************************************)
(* The two last ifs: 'fgrpG1_freq' and 'gw_O3_freq' toggled on.            *)
(***************************************************************************)
ChainFreq ==
    /\ stack # << >>
    /\ Top.pc \in { "chain4", "chain5" }
    /\ LET f == Top IN
       IF f.pc = "chain4"
       THEN IF f.label = "fgrpG1_freq" /\ f.ischecked[f.label]
            THEN stack' = SetTop([ f EXCEPT !.pc = "loop4", !.i = 1, !.bodies = @ + 1 ])
            ELSE stack' = SetTop([ f EXCEPT !.pc = "chain5" ])
       ELSE IF f.label = "gw_O3_freq" /\ f.ischecked[f.label]
            THEN stack' = SetTop([ f EXCEPT !.pc = "loop5", !.i = 1, !.bodies = @ + 1 ])
            ELSE stack' = SetTop([ f EXCEPT !.pc = "done" ])
    /\ event' = Tick(event)
    /\ UNCHANGED << status, isplotted, do_replot, drawn, phase, raised >>
    /\ UNCHANGED << ax1_legend, ax2_legend, legend_btn_on >>
    /\ UNCHANGED << dfvars, pathvars >>

(***************************************************************************)
(* The loops that uncheck other boxes with checkbox.set_active.            *)
(***************************************************************************)
LoopSeq(pc) ==
    IF pc = "loop2" THEN ALL_EXCLUDED
    ELSE IF pc = "loop3" THEN GW_SERIES_EXCLUDED
    ELSE CHKBOX_LABELS

\* Variant: the test of isplotted and ischecked left out.
LoopGuard_unguarded(f, isp, l) ==
    f.pc \in { "loop1", "loop4", "loop5" } => l # f.label

\* The guard of the loop body for the label l.
LoopGuard(f, isp, l) ==
    /\ (f.pc \in { "loop1", "loop4", "loop5" } => l # f.label)
    /\ (isp[l] \/ f.ischecked[l])

\* Index of the first label from position i on whose guard holds, or Len + 1.
NextCall(f, isp) ==
    LET seq == LoopSeq(f.pc)
        hits == { j \in f.i..Len(seq) : LoopGuard(f, isp, seq[j]) }
    IN  IF hits = {} THEN Len(seq) + 1
        ELSE CHOOSE j \in hits : \A k \in hits : j <= k

RetOf(pc) ==
    CASE pc = "loop1" -> "ret1" [] pc = "loop2" -> "ret2" [] pc = "loop3" -> "ret3"
      [] pc = "loop4" -> "ret4" [] pc = "loop5" -> "ret5"

LoopOf(pc) ==
    CASE pc = "ret1" -> "loop1" [] pc = "ret2" -> "loop2" [] pc = "ret3" -> "loop3"
      [] pc = "ret4" -> "loop4" [] pc = "ret5" -> "loop5"

AfterOf(pc) ==
    CASE pc = "loop1" -> "after1" [] pc = "loop2" -> "after2" [] pc = "loop3" -> "after3"
      [] pc = "loop4" -> "after4" [] pc = "loop5" -> "after5"

\* Loop head up to the next set_active call, which starts a nested invocation.
ExcludeLoop ==
    /\ stack # << >>
    /\ Top.pc \in { "loop1", "loop2", "loop3", "loop4", "loop5" }
    /\ LET f == Top
           seq == LoopSeq(f.pc)
           j == NextCall(f, isplotted)
       IN
       IF j > Len(seq)
       THEN /\ stack' = SetTop([ f EXCEPT !.pc = AfterOf(f.pc) ])
            /\ UNCHANGED << status, isplotted >>
       ELSE /\ Len(stack) < MaxDepth
            /\ isplotted' = IF f.pc = "loop2"
                            THEN [ isplotted EXCEPT ![seq[j]] = FALSE ]
                            ELSE isplotted
            /\ status' = set_active(status, seq[j])
            /\ stack' = SetTop([ f EXCEPT
                            !.ischecked = IF f.pc \in { "loop1", "loop5" }
                                          THEN [ @ EXCEPT ![seq[j]] = FALSE ]
                                          ELSE @,
                            !.pc = RetOf(f.pc),
                            !.i = j ])
                        \o << NewFrame(seq[j], status') >>
    /\ event' = Tick(event)
    /\ UNCHANGED << do_replot, drawn, phase, raised >>
    /\ UNCHANGED << ax1_legend, ax2_legend, legend_btn_on >>
    /\ UNCHANGED << dfvars, pathvars >>

\* The statement after set_active in the loop body, then the next iteration.
ExcludeRet ==
    /\ stack # << >>
    /\ Top.pc \in { "ret1", "ret2", "ret3", "ret4", "ret5" }
    /\ LET f == Top IN
       /\ do_replot' = IF f.pc = "ret3" THEN do_replot ELSE TRUE
       /\ stack' = SetTop([ f EXCEPT !.pc = LoopOf(f.pc), !.i = f.i + 1 ])
    /\ event' = Tick(event)
    /\ UNCHANGED << status, isplotted, drawn, phase, raised >>
    /\ UNCHANGED << ax1_legend, ax2_legend, legend_btn_on >>
    /\ UNCHANGED << dfvars, pathvars >>

(***************************************************************************)
(* The code after each loop: the reset guarded by do_replot and the draws. *)
(***************************************************************************)
\* Variant: the 'not self.isplotted[_proj]' test left out.
After2Plot_replot(ischecked, isp, p) ==
    ischecked[p] /\ InSeq(p, ALL_INCLUSIVE)

After2Plot(ischecked, isp, p) ==
    ischecked[p] /\ InSeq(p, ALL_INCLUSIVE) /\ ~ isp[p]

\* Variant: ALL_INCLUSIVE in place of GW_SERIES_INCLUSIVE.
After3Plot_all_inclusive(ischecked, isp, p) ==
    ischecked[p] /\ InSeq(p, ALL_INCLUSIVE) /\ ~ isp[p]

After3Plot(ischecked, isp, p) ==
    ischecked[p] /\ InSeq(p, GW_SERIES_INCLUSIVE) /\ ~ isp[p]

AfterLoop ==
    /\ stack # << >>
    /\ Top.pc \in { "after1", "after2", "after3", "after4", "after5" }
    /\ LET f == Top
           replot == f.pc # "after3" /\ do_replot
           isp == IF replot THEN reset_plots(Selection).isplotted ELSE isplotted
           cnt == IF replot THEN reset_plots(Selection).drawn ELSE drawn
           Test2(p) == After2Plot(f.ischecked, isp, p)
           Test3(p) == After3Plot(f.ischecked, isp, p)
           calls == CASE f.pc = "after1" -> << "all" >>
                      [] f.pc = "after2" -> SelectSeq(CHKBOX_LABELS, Test2)
                      [] f.pc = "after3" -> SelectSeq(CHKBOX_LABELS, Test3)
                      [] OTHER -> << f.label >>
           nextpc == CASE f.pc = "after1" -> "chain2"
                       [] f.pc = "after2" -> "chain3"
                       [] f.pc = "after3" -> "chain4"
                       [] f.pc = "after4" -> "chain5"
                       [] OTHER -> "done"
       IN
       /\ do_replot' = IF f.pc = "after3" THEN do_replot ELSE FALSE
       /\ Finish(f, plot_calls(Draw0(isp, cnt, replot), calls), nextpc)
    /\ UNCHANGED << status, phase, legend_btn_on >>
    /\ UNCHANGED << dfvars, pathvars >>

\* self.fig.canvas.draw_idle() and return to the caller.
Return ==
    /\ stack # << >>
    /\ Top.pc = "done"
    /\ stack' = Pop
    /\ event' = Tick(event)
    /\ UNCHANGED << status, isplotted, do_replot, drawn, phase, raised >>
    /\ UNCHANGED << ax1_legend, ax2_legend, legend_btn_on >>
    /\ UNCHANGED << dfvars, pathvars >>

Next ==
    \/ setup_plot_manager
    \/ \E l \in Labels : UserToggle(l)
    \/ Chain1
    \/ Chain2
    \/ Chain3
    \/ ChainFreq
    \/ ExcludeLoop
    \/ ExcludeRet
    \/ AfterLoop
    \/ Return

Spec == Init /\ [][Next]_vars

\* The plot manager with callbacks that are entered again for a checked box.
NextReselect ==
    \/ Next
    \/ \E l \in Labels : Reselect(l)

SpecReselect == Init /\ [][NextReselect]_vars

(***************************************************************************)
(* The Legends button.                                                     *)
(***************************************************************************)
\* legend.set_visible(shown) on the legend of an axes, if it has one.
set_visible(legend, shown) ==
    IF legend = "none" THEN "none"
    ELSE IF shown THEN "visible" ELSE "hidden"

\* toggle_legends: the user clicks the Legends button while no callback of
\* the check boxes runs.
toggle_legends ==
    /\ phase = "ready"
    /\ stack = << >>
    /\ IF ax1_legend # "none"
       THEN /\ ax1_legend' = set_visible(ax1_legend, ~ legend_btn_on)
            /\ ax2_legend' = set_visible(ax2_legend, ~ legend_btn_on)
            /\ legend_btn_on' = ~ legend_btn_on
       ELSE UNCHANGED << ax1_legend, ax2_legend, legend_btn_on >>
    /\ UNCHANGED << status, isplotted, do_replot, drawn, stack, phase, event, raised >>
    /\ UNCHANGED << dfvars, pathvars >>

\* The plot manager with its Legends button.
NextLegend ==
    \/ Next
    \/ toggle_legends

SpecLegend == Init /\ [][NextLegend]_vars

\* The positions of an invocation; at each of them one of the steps above
\* can be taken (ExcludeLoop as long as the depth explored is not used up).
Positions ==
    { "chain1", "chain2", "chain3", "chain4", "chain5", "done",
      "loop1", "loop2", "loop3", "loop4", "loop5",
      "ret1", "ret2", "ret3", "ret4", "ret5",
      "after1", "after2", "after3", "after4", "after5" }


(***************************************************************************)
(* setup_df, statement by statement.  An exception that leaves setup_df    *)
(* ends the program: setup_pc then names the exception.                    *)
(***************************************************************************)
InitDF ==
    /\ InitPlot
    /\ joblog \in Logs
    /\ tasks_df = << >>
    /\ setup_pc = "read_table"
    /\ daily_counts = << >>
    /\ PathReturned

\* Lines 170-175
ReadTable ==
    /\ setup_pc = "read_table"
    /\ tasks_df' = read_table(joblog)
    /\ setup_pc' = "interpolate"
    /\ UNCHANGED << joblog, daily_counts, plotvars, pathvars >>

\* Line 183
Interpolate ==
    /\ setup_pc = "interpolate"
    /\ tasks_df' = interpolate_time_stamp(tasks_df)
    /\ setup_pc' = "task_sec"
    /\ UNCHANGED << joblog, daily_counts, plotvars, pathvars >>

\* Line 187
TaskSec ==
    /\ setup_pc = "task_sec"
    /\ IF astype_int_raises(tasks_df)
       THEN /\ setup_pc' = "ValueError"
            /\ UNCHANGED tasks_df
       ELSE /\ tasks_df' = add_task_sec(tasks_df)
            /\ setup_pc' = "to_datetime"
    /\ UNCHANGED << joblog, daily_counts, plotvars, pathvars >>

\* Lines 190-198
ToDatetime ==
    /\ setup_pc = "to_datetime"
    /\ tasks_df' = add_datetimes(tasks_df)
    /\ setup_pc' = "flags"
    /\ UNCHANGED << joblog, daily_counts, plotvars, pathvars >>

\* Lines 201-221
AddFlags ==
    /\ setup_pc = "flags"
    /\ tasks_df' = add_flags(tasks_df)
    /\ setup_pc' = "freqs"
    /\ UNCHANGED << joblog, daily_counts, plotvars, pathvars >>

\* Lines 231-237
AddFreqs ==
    /\ setup_pc = "freqs"
    /\ tasks_df' = add_freqs(tasks_df)
    /\ setup_pc' = "daily_counts"
    /\ UNCHANGED << joblog, daily_counts, plotvars, pathvars >>

\* df[col] = columns[col] for every key of the dictionary.
RECURSIVE attach(_, _, _)
attach(df, columns, keys) ==
    IF keys = {} THEN df
    ELSE LET col == CHOOSE c \in keys : TRUE
         IN  attach(with_column(df, col, columns[col]), columns, keys \ {col})

\* Lines 249-262: one iteration of the loop over PROJECTS; tasks_df[is_proj]
\* raises KeyError when the table has no such column.  After the last
\* project the counts become columns of the table.
DailyCounts ==
    /\ setup_pc = "daily_counts"
    /\ LET k == Cardinality(DOMAIN daily_counts) + 1 IN
       IF k > Len(PROJECTS)
       THEN /\ tasks_df' = attach(tasks_df, daily_counts, DOMAIN daily_counts)
            /\ setup_pc' = "done"
            /\ UNCHANGED daily_counts
       ELSE IF ~ HasColumn(tasks_df, "is_" \o PROJECTS[k])
       THEN /\ setup_pc' = "KeyError"
            /\ UNCHANGED << tasks_df, daily_counts >>
       ELSE /\ daily_counts' =
                   daily_counts @@ ((PROJECTS[k] \o "_Dcnt") :> daily_count(tasks_df, PROJECTS[k]))
            /\ UNCHANGED << tasks_df, setup_pc >>
    /\ UNCHANGED << joblog, plotvars, pathvars >>

NextDF ==
    \/ ReadTable
    \/ Interpolate
    \/ TaskSec
    \/ ToDatetime
    \/ AddFlags
    \/ AddFreqs
    \/ DailyCounts

SpecDF == InitDF /\ [][NextDF]_vars

(***************************************************************************)
(* set_datapath, one step per branch of the function.  It ends with a      *)
(* returned path, with sys.exit, or with the FileNotFoundError that        *)
(* open() raises in validate_datafile.                                     *)
(***************************************************************************)
InitPath ==
    /\ InitPlot
    /\ joblog = << >>
    /\ tasks_df = << >>
    /\ setup_pc = "read_table"
    /\ daily_counts = << >>
    /\ use_test_file \in BOOLEAN
    /\ files \in [ Sources -> FileStates ]
    /\ cfg \in CfgStates
    /\ path_pc = "start"
    /\ cfg_i = 0
    /\ datapath = "none"

\* validate_datafile(filepath); return filepath
ValidateAndReturn(fs, src) ==
    IF ~ fs[src].isfile THEN [ pc |-> "FileNotFoundError", path |-> "none" ]
    ELSE IF validate_exits(fs[src]) THEN [ pc |-> "exit_invalid", path |-> "none" ]
    ELSE [ pc |-> "returned", path |-> src ]

\* if use_test_file: ...
TestBranch ==
    /\ path_pc = "start"
    /\ use_test_file
    /\ IF files["TESTFILE"].isfile
       THEN /\ path_pc' = ValidateAndReturn(files, "TESTFILE").pc
            /\ datapath' = ValidateAndReturn(files, "TESTFILE").path
       ELSE /\ path_pc' = "exit_test"
            /\ datapath' = "none"
    /\ UNCHANGED << use_test_file, files, cfg, cfg_i, plotvars, dfvars >>

\* elif Path.is_file(CFGFILE): cfg_text = ...splitlines()
CfgBranch ==
    /\ path_pc = "start"
    /\ ~ use_test_file
    /\ cfg.isfile
    /\ path_pc' = "cfg_loop"
    /\ cfg_i' = 1
    /\ UNCHANGED << use_test_file, files, cfg, datapath, plotvars, dfvars >>

\* for line in cfg_text: ...; after the last line control leaves the if
\* statement.
CfgLine ==
    /\ path_pc = "cfg_loop"
    /\ IF cfg_i > Len(cfg.lines)
       THEN /\ path_pc' = "validate_default"
            /\ UNCHANGED << cfg_i, datapath >>
       ELSE IF is_custom_line(cfg.lines[cfg_i])
       THEN IF custom_is_file(files, custom_path_of(cfg.lines[cfg_i]))
            THEN /\ path_pc' = "returned"
                 /\ datapath' = "custom"
                 /\ UNCHANGED cfg_i
            ELSE /\ path_pc' = "exit_custom"
                 /\ UNCHANGED << cfg_i, datapath >>
       ELSE /\ cfg_i' = cfg_i + 1
            /\ UNCHANGED << path_pc, datapath >>
    /\ UNCHANGED << use_test_file, files, cfg, plotvars, dfvars >>

\* elif not Path.is_file(default_datapath[MY_OS]): sys.exit(badpath_msg)
DefaultBranch ==
    /\ path_pc = "start"
    /\ ~ use_test_file
    /\ ~ cfg.isfile
    /\ path_pc' = IF files["default"].isfile THEN "validate_default" ELSE "exit_default"
    /\ UNCHANGED << use_test_file, files, cfg, cfg_i, datapath, plotvars, dfvars >>

\* validate_datafile(default_datapath[MY_OS]); return default_datapath[MY_OS]
ValidateDefault ==
    /\ path_pc = "validate_default"
    /\ path_pc' = ValidateAndReturn(files, "default").pc
    /\ datapath' = ValidateAndReturn(files, "default").path
    /\ UNCHANGED << use_test_file, files, cfg, cfg_i, plotvars, dfvars >>

NextPath ==
    \/ TestBranch
    \/ CfgBranch
    \/ CfgLine
    \/ DefaultBranch
    \/ ValidateDefault

SpecPath == InitPath /\ [][NextPath]_vars


(***************************************************************************)
(* Vocabulary of the claims.                                               *)
(***************************************************************************)
\* No callback is running.
Quiet == phase = "ready" /\ stack = << >>

\* No callback is running and the last thing handled was a user toggle.
Completed == Quiet /\ event.label # "none"

Plotted == { l \in DOMAIN isplotted : isplotted[l] }

Checked == { l \in Labels : status[l] }

WasPlotted == { l \in DOMAIN event.isplotted : event.isplotted[l] }

WasChecked == { l \in Labels : event.status[l] }

Inclusive == Range(ALL_INCLUSIVE)

\* The checkbox labels of the frequency views.
Detail == { "fgrp_hz", "grG1hz_X_t", "gwO3hz_X_t" }

\* EXCLUSIVE_PLOTS and the frequency views.
ExclusiveDetail == Range(EXCLUSIVE_PLOTS) \cup { "fgrpG1_freq", "gw_O3_freq" }

\* The table has a row of the project that IS_PROJECT gives for the label.
HasData(label) ==
    \E i \in Rows(tasks_df) :
        /\ ("is_" \o IS_PROJECT[label]) \in DOMAIN tasks_df[i]
        /\ tasks_df[i]["is_" \o IS_PROJECT[label]]

\* setup_df has returned or has raised.
Loaded == setup_pc \in { "done", "ValueError", "KeyError" }

TypeOK ==
    /\ status \in [ Labels -> BOOLEAN ]
    /\ do_replot \in BOOLEAN
    /\ Len(stack) <= MaxDepth
    /\ \A s \in Series : drawn[s] \in 0..MaxDraws

(***************************************************************************)
(* C1.  Exclusivity: whenever no callback is running (after any sequence   *)
(* of user toggles), at most one Exclusive/Detail series is marked drawn,  *)
(* and if one is, no Inclusive series is marked drawn.                     *)
(***************************************************************************)
C1_Exclusivity ==
    Quiet =>
        /\ Cardinality(Plotted \cap ExclusiveDetail) <= 1
        /\ (Plotted \cap ExclusiveDetail # {} => Plotted \cap Inclusive = {})

\* 'all' was selected while Inclusive series were drawn, and is now drawn.
C1_Witness ==
    /\ Completed
    /\ event.select /\ event.label = "all"
    /\ WasPlotted \cap Inclusive # {}
    /\ isplotted["all"]

(***************************************************************************)
(* C2.  After the completed toggle that checks an Exclusive label, that    *)
(* label is the only checked label and the only label marked drawn (so     *)
(* every other label checked or drawn before has been unchecked).          *)
(***************************************************************************)
C2_SelectExclusive ==
    (Completed /\ event.select /\ InSeq(event.label, EXCLUSIVE_PLOTS)) =>
        /\ Checked = { event.label }
        /\ Plotted = { event.label }

(***************************************************************************)
(* C3.  After the completed toggle that unchecks a label, the labels       *)
(* marked drawn are exactly the Inclusive labels that are still checked.   *)
(***************************************************************************)
C3_Deselect ==
    (Completed /\ ~ event.select) => Plotted = Checked \cap Inclusive

(***************************************************************************)
(* C4.  After the completed toggle that checks an Inclusive label, every   *)
(* label of ALL_EXCLUDED is unchecked and not drawn, and the labels marked *)
(* drawn are exactly the checked Inclusive labels.                         *)
(***************************************************************************)
C4_SelectInclusive ==
    (Completed /\ event.select /\ event.label \in Inclusive) =>
        /\ \A l \in Range(ALL_EXCLUDED) : ~ status[l] /\ ~ isplotted[l]
        /\ Plotted = Checked \cap Inclusive

(***************************************************************************)
(* C5.  No duplicate overlay: in every reachable state, also inside nested *)
(* invocations, every series has been drawn at most once since the last    *)
(* reset_plots.                                                            *)
(***************************************************************************)
C5_NoDuplicateOverlay == \A s \in Series : drawn[s] <= 1

\* An Inclusive label was selected on top of another one that was already
\* drawn and has stayed drawn.
C5_Witness ==
    /\ Completed
    /\ event.select /\ event.label \in Inclusive
    /\ isplotted[event.label]
    /\ \E l \in Inclusive \ { event.label } :
          event.isplotted[l] /\ isplotted[l] /\ drawn[l] = 1

(***************************************************************************)
(* C6.  Daily counts: once the table is built, every record that is a      *)
(* member of a project P of PROJECTS carries in column P_Dcnt the number   *)
(* of P's records whose report time floors to the same day.                *)
(***************************************************************************)
C6_DailyCounts ==
    Loaded =>
        \A k \in 1..Len(PROJECTS) : \A i \in Rows(tasks_df) :
            LET is_P == "is_" \o PROJECTS[k]
                P_Dcnt == PROJECTS[k] \o "_Dcnt"
            IN  (is_P \in DOMAIN tasks_df[i] /\ tasks_df[i][is_P]) =>
                    /\ P_Dcnt \in DOMAIN tasks_df[i]
                    /\ tasks_df[i][P_Dcnt] =
                         Cardinality({ j \in Rows(tasks_df) :
                            /\ tasks_df[j][is_P]
                            /\ floor_day(tasks_df[j].time_stamp)
                                 = floor_day(tasks_df[i].time_stamp) })

(***************************************************************************)
(* C7.  Interpolation closes the gaps of both time columns: for a job log  *)
(* whose first and last rows are valid and that has rows with a missing    *)
(* report time or a missing elapsed time, no record of the loaded table    *)
(* has a missing report time or a missing elapsed time.                    *)
(***************************************************************************)
ValidRow(r) == r.time_stamp # NaN /\ r.task_t # NaN

C7_GapsClosed ==
    ( /\ Loaded
      /\ ValidRow(joblog[1]) /\ ValidRow(joblog[Len(joblog)])
      /\ \E i \in 1..Len(joblog) : ~ ValidRow(joblog[i]) )
    => \A i \in Rows(tasks_df) :
          tasks_df[i].time_stamp # NaN /\ tasks_df[i].task_t # NaN

(***************************************************************************)
(* C8.  No-data safety: after the completed toggle that selects a label    *)
(* whose project (IS_PROJECT) has no record in the table, the set of       *)
(* labels marked drawn is the same as before the toggle.                   *)
(***************************************************************************)
C8_NoDataSafety ==
    (Completed /\ event.select /\ ~ HasData(event.label)) => Plotted = WasPlotted

(***************************************************************************)
(* C9.  Drawn implies checked: after every completed user toggle, every    *)
(* label marked drawn has its box checked.                                 *)
(***************************************************************************)
C9_DrawnImpliesChecked == Completed => Plotted \subseteq Checked

\* A label was unchecked while other series were drawn, and some are drawn again.
C9_Witness ==
    /\ Completed
    /\ ~ event.select
    /\ WasPlotted \ { event.label } # {}
    /\ Plotted # {}

(***************************************************************************)
(* C10.  Checked implies drawn: after every completed user toggle, every   *)
(* checked label is marked drawn.                                          *)
(***************************************************************************)
C10_CheckedImpliesDrawn == Completed => Checked \subseteq Plotted

(***************************************************************************)
(* C11.  Re-entrancy terminates: handling a toggle always completes.  The  *)
(* nesting of invocations started by the handler's own set_active calls    *)
(* stays below the depth explored, so a running invocation always has a    *)
(* next step, and the steps taken for one toggle stay below a fixed        *)
(* number.                                                                 *)
(***************************************************************************)
C11_Terminates ==
    /\ Len(stack) < MaxDepth
    /\ \A k \in 1..Len(stack) : stack[k].pc \in Positions
    /\ event.steps < MaxSteps

\* A nested invocation, started by set_active, is running during a user toggle.
C11_Witness == Len(stack) >= 2 /\ event.label # "none"

(***************************************************************************)
(* C12.  Exactly one branch per event: every invocation of manage_plots    *)
(* that reaches its end has entered the body of exactly one branch of its  *)
(* if/elif chains.                                                         *)
(***************************************************************************)
C12_OneBranch ==
    \A k \in 1..Len(stack) : stack[k].pc = "done" => stack[k].bodies = 1

C14_DetailResetFirst ==
    (Completed /\ event.select /\ event.label \in Detail) => event.reset

(***************************************************************************)
(* C15.  Deselecting an Exclusive label yields the blank state: after the  *)
(* completed toggle that unchecks a label of EXCLUSIVE_PLOTS, no label is  *)
(* marked drawn.                                                           *)
(***************************************************************************)
C15_DeselectExclusive ==
    (Completed /\ ~ event.select /\ InSeq(event.label, EXCLUSIVE_PLOTS)) => Plotted = {}

(***************************************************************************)
(* C16.  Startup default: when setup_plot_manager has returned and no user *)
(* event has happened yet, 'all' is the only checked label and the only    *)
(* label marked drawn.                                                     *)
(***************************************************************************)
C16_StartupDefault ==
    (Quiet /\ event.label = "none") =>
        /\ Checked = { "all" }
        /\ Plotted = { "all" }

\* setup_plot_manager has returned, 'all' was plotted once by its callback.
C16_Witness ==
    /\ Quiet
    /\ event.label = "none"
    /\ event.called
    /\ drawn["all"] = 1

(***************************************************************************)
(* C17.  Data-quality problems never abort the load: for a job log whose   *)
(* first line is valid (it starts with a report time) and that has a row   *)
(* with a missing report time or a missing elapsed time, setup_df does not *)
(* end with an exception.                                                  *)
(***************************************************************************)
C17_LoadCompletes ==
    ( /\ Loaded
      /\ joblog[1].time_stamp # NaN
      /\ \E i \in 1..Len(joblog) : ~ ValidRow(joblog[i]) )
    => setup_pc = "done"

(***************************************************************************)
(* C18.  Midpoint interpolation: once time_stamp has been interpolated, a  *)
(* row whose report time was missing between two rows with the report     *)
(* times a and b carries (a + b) / 2 exactly.                              *)
(***************************************************************************)
Interpolated == setup_pc \notin { "read_table", "interpolate" }

IsolatedGap(i) ==
    /\ i - 1 \in 1..Len(joblog) /\ i + 1 \in 1..Len(joblog)
    /\ joblog[i].time_stamp = NaN
    /\ joblog[i - 1].time_stamp # NaN
    /\ joblog[i + 1].time_stamp # NaN

C18_Midpoint ==
    Interpolated =>
        \A i \in Rows(tasks_df) :
            IsolatedGap(i) =>
                2 * tasks_df[i].time_stamp
                    = joblog[i - 1].time_stamp + joblog[i + 1].time_stamp

\* The gap between 1000000000 and 1000086400 has been repaired to 1000043200.
C18_Witness ==
    /\ Interpolated
    /\ Len(joblog) = 3
    /\ IsolatedGap(2)
    /\ joblog[1].time_stamp = 1000000000
    /\ joblog[3].time_stamp = 1000086400
    /\ tasks_df[2].time_stamp = 1000043200

(***************************************************************************)
(* C19.  Non-members have no daily count: once the table is built, every   *)
(* record that is not a member of a project P of PROJECTS has a missing    *)
(* value in column P_Dcnt (not 0, not a count).                            *)
(***************************************************************************)
C19_NonMembers ==
    Loaded =>
        \A k \in 1..Len(PROJECTS) : \A i \in Rows(tasks_df) :
            LET is_P == "is_" \o PROJECTS[k]
                P_Dcnt == PROJECTS[k] \o "_Dcnt"
            IN  (is_P \in DOMAIN tasks_df[i] /\ ~ tasks_df[i][is_P]) =>
                    /\ P_Dcnt \in DOMAIN tasks_df[i]
                    /\ tasks_df[i][P_Dcnt] = NaN

(***************************************************************************)
(* C20.  Classification totality: once the project flags are set, is_all   *)
(* is true for every record with a non-empty task name, and the total of   *)
(* 'all' equals the number of records of the table (total_jobs).           *)
(***************************************************************************)
Flagged == setup_pc \in { "freqs", "daily_counts", "done", "KeyError" }

C20_Totality ==
    Flagged =>
        /\ \A i \in Rows(tasks_df) :
              tasks_df[i].task_name # << >> => tasks_df[i].is_all
        /\ proj_total(tasks_df, "all") = total_jobs(tasks_df)

\* A flagged table with records of different projects, all counted in 'all'.
C20_Witness ==
    /\ Flagged
    /\ \E i, j \in Rows(tasks_df) :
          /\ tasks_df[i].is_fgrp5 /\ ~ tasks_df[j].is_fgrp5
          /\ tasks_df[i].is_all /\ tasks_df[j].is_all
    /\ proj_total(tasks_df, "all") = Len(joblog)

(***************************************************************************)
(* C21.  Project-restricted frequency extraction: once the frequencies     *)
(* are extracted, a record that is not a member of FGRPG1 has a missing    *)
(* fgrpG1_freq, also when its name matches the pattern of the rule, and    *)
(* the FGRPG1 record LATeah4013L03_988.0_0_0.0_9010205_1 has 988.          *)
(***************************************************************************)
Extracted == setup_pc \in { "daily_counts", "done", "KeyError" }

C21_RestrictedFreq ==
    Extracted =>
        \A i \in Rows(tasks_df) :
            /\ ~ tasks_df[i].is_fgrpG1 => tasks_df[i].fgrpG1_freq = NaN
            /\ tasks_df[i].task_name = Name_fgrpG1 =>
                  tasks_df[i].is_fgrpG1 /\ tasks_df[i].fgrpG1_freq = 988000

\* A table with an FGRP5 record, whose name matches the pattern of the rule
\* and whose frequency is missing, and an FGRPG1 record with its frequency.
C21_Witness ==
    /\ Extracted
    /\ \E i, j \in Rows(tasks_df) :
          /\ tasks_df[i].task_name = Name_fgrp5
          /\ extract_fgrpG1_freq(tasks_df[i].task_name) # NaN
          /\ tasks_df[i].fgrpG1_freq = NaN
          /\ tasks_df[j].task_name = Name_fgrpG1
          /\ tasks_df[j].fgrpG1_freq = 988000

(***************************************************************************)
(* C22.  Example classification: for the three-row log with the task names *)
(* LATeah1000F_100.0_0_0.0_1_1, LATeah1000F_200.0_0_0.0_2_1 and            *)
(* h1_300.50_O3aC01__O3AS1a_300.50Hz_1_1 the table has is_fgrp5 true for   *)
(* exactly the first two rows, is_gw_O3 true for exactly the third, gw     *)
(* frequencies missing, missing, 300.50 and FGRP frequencies 100.0, 200.0, *)
(* missing.                                                                *)
(***************************************************************************)
ExampleLog ==
    /\ Extracted
    /\ Len(joblog) = 3
    /\ joblog[1].task_name = Name_fgrp5
    /\ joblog[2].task_name = Name_fgrp5_200
    /\ joblog[3].task_name = Name_gw_O3

ExampleFlags ==
    /\ tasks_df[1].is_fgrp5 /\ tasks_df[2].is_fgrp5 /\ ~ tasks_df[3].is_fgrp5
    /\ ~ tasks_df[1].is_gw_O3 /\ ~ tasks_df[2].is_gw_O3 /\ tasks_df[3].is_gw_O3
    /\ tasks_df[1].gw_freq = NaN
    /\ tasks_df[2].gw_freq = NaN
    /\ tasks_df[3].gw_freq = 300500

C22_Example ==
    ExampleLog =>
        /\ ExampleFlags
        /\ tasks_df[1].fgrpG1_freq = 100000
        /\ tasks_df[2].fgrpG1_freq = 200000
        /\ tasks_df[3].fgrpG1_freq = NaN

(***************************************************************************)
(* C22, amended.  As above, but the FGRP frequencies are missing, missing, *)
(* missing: the frequency rule of FGRP is restricted to FGRPG1, and the    *)
(* first two records are FGRP5 records.                                    *)
(***************************************************************************)
C22_Example_amended ==
    ExampleLog =>
        /\ ExampleFlags
        /\ tasks_df[1].fgrpG1_freq = NaN
        /\ tasks_df[2].fgrpG1_freq = NaN
        /\ tasks_df[3].fgrpG1_freq = NaN

\* The example log, its second report time missing, with its frequencies.
C22_Witness ==
    /\ ExampleLog
    /\ joblog[1].time_stamp = 1000000000
    /\ joblog[2].time_stamp = NaN
    /\ joblog[3].time_stamp = 1000086400
    /\ tasks_df[3].gw_freq = 300500
    /\ ~ tasks_df[1].is_fgrpG1

(***************************************************************************)
(* C23.  Summary counts never divide by zero: on the loaded table,         *)
(* count_log_projects gives every project of PROJ_TO_REPORT a daily mean:  *)
(* 0 when its total is 0, and otherwise its number of days is at least 1   *)
(* and the mean is total / days rounded to one decimal.                    *)
(***************************************************************************)
C23_SummaryCounts ==
    Loaded =>
        \A k \in 1..Len(PROJ_TO_REPORT) :
            LET p == PROJ_TO_REPORT[k] IN
            /\ ~ count_raises(tasks_df, p)
            /\ proj_total(tasks_df, p) = 0 => proj_daily_mean(tasks_df, p) = 0
            /\ proj_total(tasks_df, p) # 0 =>
                  /\ proj_days(tasks_df, p) >= 1
                  /\ proj_daily_mean(tasks_df, p)
                       = round1(proj_total(tasks_df, p), proj_days(tasks_df, p))

(***************************************************************************)
(* Claims about set_datapath.                                              *)
(***************************************************************************)
\* set_datapath has ended: it returned, called sys.exit, or raised.
PathEnded == path_pc \notin { "start", "cfg_loop", "validate_default" }

\* Index of the first line of the configuration file that sets custom_path,
\* 0 when there is none.
FirstCustom ==
    IF \E k \in 1..Len(cfg.lines) : is_custom_line(cfg.lines[k])
    THEN CHOOSE k \in 1..Len(cfg.lines) :
            /\ is_custom_line(cfg.lines[k])
            /\ \A j \in 1..(k - 1) : ~ is_custom_line(cfg.lines[j])
    ELSE 0

\* The file that would be loaded: the test file under the test flag, else
\* the file of the custom_path line of the configuration file, else the
\* default job log.
SelectedFile ==
    IF use_test_file THEN files["TESTFILE"]
    ELSE IF cfg.isfile /\ FirstCustom # 0
    THEN IF custom_path_of(cfg.lines[FirstCustom]) = CustomFile
         THEN files["custom"] ELSE NoFile
    ELSE files["default"]

\* The first line begins with exactly ten digits followed by whitespace.
StartsWithStamp(line) ==
    /\ Len(line) >= 11
    /\ \A k \in 1..10 : line[k] \in Digits
    /\ line[11] \in Whitespace

\* C24: whichever source set_datapath selects, an existing file whose first
\* line does not begin with exactly ten digits followed by whitespace is
\* rejected with the fatal error of validate_datafile and its path is never
\* returned.
C24_EveryFileValidated ==
    ( PathEnded /\ SelectedFile.isfile /\ ~ StartsWithStamp(SelectedFile.first) )
        => ( path_pc = "exit_invalid" /\ datapath = "none" )

\* C25: when the file that would be loaded does not exist, set_datapath ends
\* in sys.exit with its message; it neither returns a path nor ends in an
\* unhandled FileNotFoundError.
C25_MissingFileExits ==
    ( PathEnded /\ ~ SelectedFile.isfile )
        => ( path_pc \in { "exit_test", "exit_custom", "exit_default" }
             /\ datapath = "none" )

(***************************************************************************)
(* C26.  After the completed toggle that checks gw_series, gw_series is    *)
(* marked drawn, every label of GW_SERIES_EXCLUDED is unchecked and not    *)
(* drawn, and every label among fgrp5, fgrpG1, brp4 that was checked       *)
(* before the toggle is still checked and drawn.                           *)
(***************************************************************************)
C26_SelectGwSeries ==
    (Completed /\ event.select /\ event.label = "gw_series") =>
        /\ isplotted["gw_series"]
        /\ \A l \in Range(GW_SERIES_EXCLUDED) : ~ status[l] /\ ~ isplotted[l]
        /\ \A l \in { "fgrp5", "fgrpG1", "brp4" } :
              event.status[l] => (status[l] /\ isplotted[l])

\* gw_series was selected while gw_O3 and fgrp5 were checked and drawn.
C26_Witness ==
    /\ Completed
    /\ event.select /\ event.label = "gw_series"
    /\ event.status["gw_O3"] /\ event.isplotted["gw_O3"]
    /\ event.status["fgrp5"] /\ event.isplotted["fgrp5"]
    /\ isplotted["gw_series"] /\ isplotted["fgrp5"]

(***************************************************************************)
(* C28.  After every completed user toggle, gw_series is not marked drawn  *)
(* together with any of 'all', gw_O2 or gw_O3, in whichever order the      *)
(* labels were selected.                                                   *)
(***************************************************************************)
C28_GwSeriesAlone ==
    Completed =>
        ~ ( isplotted["gw_series"]
            /\ \E l \in { "all", "gw_O2", "gw_O3" } : isplotted[l] )

\* gw_series was selected while gw_O3 was drawn, or gw_O3 while gw_series
\* was drawn, and the selected one is now drawn.
C28_Witness ==
    /\ Completed
    /\ event.select
    /\ \/ event.label = "gw_series" /\ event.isplotted["gw_O3"]
       \/ event.label = "gw_O3" /\ event.isplotted["gw_series"]
    /\ isplotted[event.label]

(***************************************************************************)
(* C29.  Every checkbox.set_active call issued by manage_plots is applied  *)
(* to a box that is checked at that moment and so turns it off: no step of *)
(* a running callback turns a box on.                                      *)
(***************************************************************************)
C29_OnlyUncheck ==
    [][ stack # << >> => \A l \in Labels : status'[l] => status[l] ]_vars

\* A nested invocation runs for a label that the calling invocation, which
\* handles gw_series or an ALL_INCLUSIVE label, has just turned off and whose
\* entry in the caller's status snapshot still reads checked.
C29_Witness ==
    /\ Len(stack) = 2
    /\ stack[1].pc \in { "ret2", "ret3" }
    /\ stack[1].ischecked[stack[2].label]
    /\ ~ status[stack[2].label]

(***************************************************************************)
(* C27.  Whenever the upper plot has a legend, a click on the Legends      *)
(* button flips the visibility of the legends (visible becomes hidden,     *)
(* hidden becomes visible), also when the plots were reset and redrawn     *)
(* since the last click; when the upper plot has no legend, a click        *)
(* changes neither the visibility nor legend_btn_on.                       *)
(***************************************************************************)
Flipped(before, after) ==
    \/ before = "visible" /\ after = "hidden"
    \/ before = "hidden" /\ after = "visible"
    \/ before = "none" /\ after = "none"

C27_LegendToggle ==
    [][ toggle_legends =>
          IF ax1_legend # "none"
          THEN /\ Flipped(ax1_legend, ax1_legend')
               /\ Flipped(ax2_legend, ax2_legend')
          ELSE UNCHANGED << ax1_legend, ax2_legend, legend_btn_on >> ]_vars

(***************************************************************************)
(* C30.  reset_plots sets isplotted to false for every label and leaves    *)
(* every checkbox status and the do_replot flag as they were: checked on   *)
(* the step of manage_plots that is the bare call self.reset_plots().      *)
(***************************************************************************)
C30_ResetFrame ==
    [][ ( Chain1 /\ ~ Top.ischecked[Top.label] )
          => /\ \A k \in DOMAIN isplotted' : ~ isplotted'[k]
             /\ status' = status
             /\ do_replot' = do_replot ]_vars

\* reset_plots has just run in a nested invocation while do_replot was set
\* and boxes were checked.
C30_Witness ==
    /\ Len(stack) = 2
    /\ Top.pc = "chain2"
    /\ ~ Top.ischecked[Top.label]
    /\ do_replot
    /\ Checked # {}
    /\ Plotted = {}

====
